---- MODULE Spec2Model ----
(***************************************************************************)
(* A model of the <solar-logo-ticker> custom element (class                *)
(* SolarLogoTicker): its private fields, the host element's attributes,    *)
(* the shadow tree it renders, and the three entry points the hosting      *)
(* document drives: construction, connectedCallback and                    *)
(* attributeChangedCallback.                                               *)
(*                                                                         *)
(* JavaScript values are tagged records.  A string is a sequence of atoms  *)
(* (TLA+ strings); the atoms that matter to a parser (a digit, a sign, a   *)
(* double quote, ">") are atoms of their own, so that parseFloat,          *)
(* String.prototype.replace, the template literals and the HTML parser     *)
(* behind innerHTML are computed on the text, not assumed.                 *)
(***************************************************************************)
EXTENDS Integers, Sequences, FiniteSets, TLC

(***************************************************************************)
(* JavaScript values                                                       *)
(***************************************************************************)
JNull == [t |-> "null"]
JUndefined == [t |-> "undefined"]
JBool(b) == [t |-> "boolean", b |-> b]
JStr(s) == [t |-> "string", s |-> s]
JNum(n) == [t |-> "number", n |-> n]
JArr(items) == [t |-> "array", items |-> items]
JObj(props) == [t |-> "object", props |-> props]
Prop(k, v) == [key |-> k, value |-> v]

\* A number: NaN, or sign * m / 10^e with no trailing zero in the fraction.
NaN == [nan |-> TRUE, neg |-> FALSE, m |-> 0, e |-> 0]
RECURSIVE Normalize(_, _, _)
Normalize(neg, m, e) ==
  IF e > 0 /\ m % 10 = 0 THEN Normalize(neg, m \div 10, e - 1)
  ELSE [nan |-> FALSE, neg |-> neg, m |-> m, e |-> e]
Num(m, e) == Normalize(FALSE, m, e)
Neg(m, e) == Normalize(TRUE, m, e)

\* ToBoolean
Truthy(v) ==
  CASE v.t = "null" -> FALSE
    [] v.t = "undefined" -> FALSE
    [] v.t = "boolean" -> v.b
    [] v.t = "string" -> v.s # <<>>
    [] v.t = "number" -> ~v.n.nan /\ v.n.m # 0
    [] OTHER -> TRUE

\* a || b
Or(a, b) == IF Truthy(a) THEN a ELSE b
\* p || q, of numbers
OrNumber(p, q) == IF Truthy(JNum(p)) THEN p ELSE q

Digits == <<"0", "1", "2", "3", "4", "5", "6", "7", "8", "9">>
IsDigit(c) == \E d \in 1..10 : Digits[d] = c
DigitValue(c) == (CHOOSE d \in 1..10 : Digits[d] = c) - 1
WhiteSpace == {" ", "\t", "\n"}

RECURSIVE Pow10(_)
Pow10(e) == IF e = 0 THEN 1 ELSE 10 * Pow10(e - 1)

RECURSIVE NatToAtoms(_)
NatToAtoms(n) ==
  IF n < 10 THEN <<Digits[n + 1]>>
  ELSE NatToAtoms(n \div 10) \o <<Digits[(n % 10) + 1]>>

RECURSIVE FracToAtoms(_, _)
FracToAtoms(f, e) ==
  IF e = 0 THEN <<>>
  ELSE FracToAtoms(f \div 10, e - 1) \o <<Digits[(f % 10) + 1]>>

\* Number::toString for the finite decimals of the model
NumberToString(n) ==
  IF n.nan THEN <<"NaN">>
  ELSE (IF n.neg /\ n.m # 0 THEN <<"-">> ELSE <<>>)
       \o NatToAtoms(n.m \div Pow10(n.e))
       \o (IF n.e = 0 THEN <<>>
           ELSE <<".">> \o FracToAtoms(n.m % Pow10(n.e), n.e))

\* ToString, as a template literal ${...} and parseFloat/JSON.parse apply it
JSToString(v) ==
  CASE v.t = "string" -> v.s
    [] v.t = "null" -> <<"n", "u", "l", "l">>
    [] v.t = "undefined" -> <<"undefined">>
    [] v.t = "boolean" -> IF v.b THEN <<"true">> ELSE <<"false">>
    [] v.t = "number" -> NumberToString(v.n)
    [] OTHER -> <<"[object Object]">>

(***************************************************************************)
(* parseFloat: leading white space, an optional sign, the longest prefix   *)
(* that is a decimal literal; NaN when there is none.  (Exponents and      *)
(* "Infinity" do not occur in the attribute values of the model.)          *)
(***************************************************************************)
RECURSIVE SkipWhile(_, _, _)
SkipWhile(s, i, set) ==
  IF i <= Len(s) /\ s[i] \in set THEN SkipWhile(s, i + 1, set) ELSE i

RECURSIVE DigitRunEnd(_, _)
DigitRunEnd(s, i) ==
  IF i <= Len(s) /\ IsDigit(s[i]) THEN DigitRunEnd(s, i + 1) ELSE i

RECURSIVE DigitsValue(_, _, _, _)
DigitsValue(s, i, j, acc) ==
  IF i >= j THEN acc ELSE DigitsValue(s, i + 1, j, acc * 10 + DigitValue(s[i]))

\* s[b..c-1] is the integer part; with a "." at c, s[c+1..d-1] is the fraction
FloatValue(s, neg, b, c, d) ==
  IF c = b /\ d = c + 1 THEN NaN
  ELSE Normalize(neg, DigitsValue(s, c + 1, d, DigitsValue(s, b, c, 0)), d - (c + 1))

FloatFraction(s, neg, b, c) ==
  IF c <= Len(s) /\ s[c] = "." THEN FloatValue(s, neg, b, c, DigitRunEnd(s, c + 1))
  ELSE IF c = b THEN NaN
  ELSE Normalize(neg, DigitsValue(s, b, c, 0), 0)

\* a is the place of the first atom that is no white space
SignedFloat(s, a) ==
  IF a <= Len(s) /\ s[a] \in {"-", "+"}
  THEN FloatFraction(s, s[a] = "-", a + 1, DigitRunEnd(s, a + 1))
  ELSE FloatFraction(s, FALSE, a, DigitRunEnd(s, a))

StringToFloat(s) == SignedFloat(s, SkipWhile(s, 1, WhiteSpace))

parseFloat(v) == StringToFloat(JSToString(v))

(***************************************************************************)
(* JSON.parse, on the token sequence of the text.  A data-json attribute   *)
(* value is a string whose atoms are JSON tokens; a token that is no JSON  *)
(* token (TBad) stands for any lexical error.                              *)
(***************************************************************************)
P(c) == [k |-> "punct", c |-> c]
TStr(s) == [k |-> "string", s |-> s]
TNum(n) == [k |-> "number", n |-> n]
TLit(w) == [k |-> "literal", w |-> w]
TBad(w) == [k |-> "invalid", w |-> w]
Key(name) == <<name>>

NoParse == [ok |-> FALSE, v |-> JNull, next |-> 0]
Parsed(v, next) == [ok |-> TRUE, v |-> v, next |-> next]
IsPunct(toks, i, c) == i <= Len(toks) /\ toks[i] = P(c)

\* the last definition of a duplicated key wins, at the place of the first
SetProp(props, k, v) ==
  IF \E i \in 1..Len(props) : props[i].key = k
  THEN [i \in 1..Len(props) |-> IF props[i].key = k THEN Prop(k, v) ELSE props[i]]
  ELSE Append(props, Prop(k, v))

RECURSIVE ParseValue(_, _)
RECURSIVE ParseElements(_, _, _)
RECURSIVE ParseMembers(_, _, _)
ParseValue(toks, i) ==
  IF i > Len(toks) THEN NoParse
  ELSE LET tk == toks[i]
       IN  CASE tk.k = "string" -> Parsed(JStr(tk.s), i + 1)
             [] tk.k = "number" -> Parsed(JNum(tk.n), i + 1)
             [] tk.k = "literal" ->
                  Parsed(CASE tk.w = "true" -> JBool(TRUE)
                           [] tk.w = "false" -> JBool(FALSE)
                           [] OTHER -> JNull, i + 1)
             [] tk.k = "punct" /\ tk.c = "[" ->
                  IF IsPunct(toks, i + 1, "]") THEN Parsed(JArr(<<>>), i + 2)
                  ELSE ParseElements(toks, i + 1, <<>>)
             [] tk.k = "punct" /\ tk.c = "{" ->
                  IF IsPunct(toks, i + 1, "}") THEN Parsed(JObj(<<>>), i + 2)
                  ELSE ParseMembers(toks, i + 1, <<>>)
             [] OTHER -> NoParse

ParseElements(toks, i, acc) ==
  LET r == ParseValue(toks, i)
  IN  IF ~r.ok THEN NoParse
      ELSE IF IsPunct(toks, r.next, ",")
           THEN ParseElements(toks, r.next + 1, Append(acc, r.v))
      ELSE IF IsPunct(toks, r.next, "]")
           THEN Parsed(JArr(Append(acc, r.v)), r.next + 1)
      ELSE NoParse

ParseMembers(toks, i, acc) ==
  IF ~(i <= Len(toks) /\ toks[i].k = "string" /\ IsPunct(toks, i + 1, ":"))
  THEN NoParse
  ELSE LET r == ParseValue(toks, i + 2)
       IN  IF ~r.ok THEN NoParse
           ELSE IF IsPunct(toks, r.next, ",")
                THEN ParseMembers(toks, r.next + 1, SetProp(acc, toks[i].s, r.v))
           ELSE IF IsPunct(toks, r.next, "}")
                THEN Parsed(JObj(SetProp(acc, toks[i].s, r.v)), r.next + 1)
           ELSE NoParse

\* JSON.parse(text): [ok |-> FALSE] is a thrown SyntaxError.  The argument
\* goes through ToString first, so null is parsed as the text  null.
JSONText(text) == IF text.t = "string" THEN text.s ELSE <<TLit("null")>>
WholeText(r, toks) ==
  IF r.ok /\ r.next = Len(toks) + 1 THEN [ok |-> TRUE, v |-> r.v]
  ELSE [ok |-> FALSE, v |-> JNull]
JSONParse(text) == WholeText(ParseValue(JSONText(text), 1), JSONText(text))

\* property read  v[k]  on a value that is neither null nor undefined
Get(v, k) ==
  IF v.t = "object" /\ \E i \in 1..Len(v.props) : v.props[i].key = k
  THEN v.props[CHOOSE i \in 1..Len(v.props) : v.props[i].key = k].value
  ELSE JUndefined

(***************************************************************************)
(* getDefaultLogos                                                         *)
(***************************************************************************)
PixelPng == "data:image/png;base64,iVBORw0KGgoAAAANSUhEUgAAAAEAAAABCAQAAAC1HAwCAAAAC0lEQVR42mNkYAAAAAYAAjCB0C8AAAAASUVORK5CYII="
MountaineersPng == "data:image/png;base64,iVBORw0KGgoAAAANBvcHJvdGlvbi5jb20vdjIvZGF0YS9pbWFnZXMvbW91bnRhaW5lZXJz-white.png"
DefaultLogo(name, logo, more) ==
  JObj(<<Prop(Key("name"), JStr(<<name>>)), Prop(Key("logo"), JStr(<<logo>>))>> \o more)

getDefaultLogos ==
  JArr(<<
     DefaultLogo("Arctic Tern Expeditions", PixelPng, <<Prop(Key("scale"), JNum(Num(17, 1)))>>),
     DefaultLogo("California Marine Sanctuary Foundation", PixelPng, <<Prop(Key("scale"), JNum(Num(16, 1)))>>),
     DefaultLogo("Converge", PixelPng, <<>>),
     DefaultLogo("Discovery Digital Networks", PixelPng, <<>>),
     DefaultLogo("Gates Foundation", PixelPng, <<>>),
     DefaultLogo("Harvard Kennedy School", PixelPng, <<Prop(Key("scale"), JNum(Num(14, 1)))>>),
     DefaultLogo("Hawaii Institute of Marine Biology", PixelPng, <<>>),
     DefaultLogo("MIT", PixelPng, <<>>),
     DefaultLogo("The Mountaineers", MountaineersPng, <<>>),
     DefaultLogo("Northeastern University", PixelPng, <<>>),
     DefaultLogo("NOAA", PixelPng, <<>>),
     DefaultLogo("Orbtl", PixelPng, <<>>),
     DefaultLogo("Ocean Youth Academy", PixelPng, <<>>),
     DefaultLogo("Reinvent", PixelPng, <<>>),
     DefaultLogo("Restore With Resilience", PixelPng, <<Prop(Key("scale"), JNum(Num(12, 1)))>>),
     DefaultLogo("Seeker", PixelPng, <<>>),
     DefaultLogo("Smithsonian", PixelPng, <<Prop(Key("scale"), JNum(Num(16, 1)))>>),
     DefaultLogo("The Nature Conservancy", PixelPng, <<Prop(Key("scale"), JNum(Num(16, 1)))>>),
     DefaultLogo("The Verge", PixelPng, <<>>),
     DefaultLogo("Vox", PixelPng, <<>>),
     DefaultLogo("Watt", PixelPng, <<>>),
     DefaultLogo("Yale", PixelPng, <<>>),
     DefaultLogo("Yuba Trails Stewardship", PixelPng, <<Prop(Key("scale"), JNum(Num(17, 1)))>>)
  >>)

(***************************************************************************)
(* createTickerRowContent: the markup of the row, as the atoms of the      *)
(* string the template literals build.                                     *)
(***************************************************************************)
DQ == "\""
DropShadow6 == "drop-shadow(0 0 6px rgba(255,255,255,0.7))"
DropShadow12 == "drop-shadow(0 0 12px rgba(255,255,255,0.3))"

\* [...items]: an array or a string is iterable; anything else is a TypeError
IsIterable(v) == v.t \in {"array", "string"}
Spread(v) ==
  IF v.t = "array" THEN v.items
  ELSE [i \in 1..Len(v.s) |-> JStr(<<v.s[i]>>)]

\* reading a property of null or undefined is a TypeError
ReadThrows(item) == item.t \in {"null", "undefined"}

glowStyle(item) ==
  IF Truthy(Get(item, Key("needsGlow")))
  THEN <<"filter: ", DropShadow6, " ", DropShadow12, ";">>
  ELSE <<>>

scaleStyle(item) ==
  IF Truthy(Get(item, Key("scale")))
  THEN <<"transform: scale(">> \o JSToString(Get(item, Key("scale"))) \o <<");">>
  ELSE <<>>

\* the template of one item; index counts from 0 as Array.prototype.map does
ItemMarkup(item, index) ==
  <<"<div", " class=", DQ, "logo-item-wrapper", DQ, " key=", DQ>>
    \o JSToString(Get(item, Key("name"))) \o <<"-">> \o NatToAtoms(index)
    \o <<DQ, ">", "<img", " src=", DQ>>
    \o JSToString(Get(item, Key("logo")))
    \o <<DQ, " alt=", DQ>>
    \o JSToString(Get(item, Key("name")))
    \o <<DQ, " class=", DQ, "logo-item", DQ, " style=", DQ>>
    \o scaleStyle(item) \o <<" ">> \o glowStyle(item)
    \o <<DQ, "/>", "</div>">>

\* .join(''), by halves
RECURSIVE Join(_, _, _)
Join(chunks, lo, hi) ==
  IF lo > hi THEN <<>>
  ELSE IF lo = hi THEN chunks[lo]
  ELSE LET mid == (lo + hi) \div 2
       IN  Join(chunks, lo, mid) \o Join(chunks, mid + 1, hi)

duplicatedItems(items) == Spread(items) \o Spread(items) \o Spread(items)

createTickerRowContent(items) ==
  IF ~IsIterable(items) THEN [threw |-> TRUE, html |-> <<>>]
  ELSE LET dup == duplicatedItems(items)
       IN  IF \E i \in 1..Len(dup) : ReadThrows(dup[i])
           THEN [threw |-> TRUE, html |-> <<>>]
           ELSE [threw |-> FALSE,
                 html |-> Join([i \in 1..Len(dup) |-> ItemMarkup(dup[i], i - 1)],
                               1, Len(dup))]

(***************************************************************************)
(* The HTML parser behind template.innerHTML, on the atoms of the markup:  *)
(* the tokenizer's data, before-attribute-name, before-attribute-value     *)
(* and attribute-value (double-quoted) states.  It yields the start tags   *)
(* in document order; nesting and text nodes are not kept.                 *)
(***************************************************************************)
TagOpen == {"<div", "<img"}
TagName(a) == IF a = "<img" THEN "img" ELSE "div"
AttrOpen == {" class=", " key=", " src=", " alt=", " style=", " onerror="}
AttrName(a) ==
  CASE a = " class=" -> "class"
    [] a = " key=" -> "key"
    [] a = " src=" -> "src"
    [] a = " alt=" -> "alt"
    [] a = " style=" -> "style"
    [] OTHER -> "onerror"

HtmlStart ==
  [mode |-> "data", out |-> <<>>, tag |-> "", attrs |-> <<>>,
   aname |-> "", aval |-> <<>>]

\* a second attribute of the same name is dropped
AddAttr(list, name, value) ==
  IF \E i \in 1..Len(list) : list[i].name = name THEN list
  ELSE Append(list, [name |-> name, value |-> value])

HtmlStep(st, a) ==
  CASE st.mode = "data" ->
         IF a \in TagOpen
         THEN [st EXCEPT !.mode = "tag", !.tag = TagName(a), !.attrs = <<>>]
         ELSE st
    [] st.mode = "tag" ->
         IF a \in {">", "/>"}
         THEN [st EXCEPT !.mode = "data",
                         !.out = Append(@, [tag |-> st.tag, attrs |-> st.attrs])]
         ELSE IF a \in AttrOpen
         THEN [st EXCEPT !.mode = "beforeValue", !.aname = AttrName(a)]
         ELSE [st EXCEPT !.attrs = AddAttr(@, a, <<>>)]
    [] st.mode = "beforeValue" ->
         IF a = DQ THEN [st EXCEPT !.mode = "value", !.aval = <<>>]
         ELSE IF a = ">"
         THEN [st EXCEPT !.mode = "data",
                         !.out = Append(@, [tag |-> st.tag,
                                            attrs |-> AddAttr(st.attrs, st.aname, <<>>)])]
         ELSE [st EXCEPT !.mode = "tag", !.attrs = AddAttr(@, st.aname, <<a>>)]
    [] OTHER ->
         IF a = DQ
         THEN [st EXCEPT !.mode = "tag", !.attrs = AddAttr(@, st.aname, st.aval)]
         ELSE [st EXCEPT !.aval = Append(@, a)]

\* The run over s[lo..hi], by halves.  (The test of left.mode is always
\* true: it makes TLC compute the left half before it starts the right one.)
HtmlModes == {"data", "tag", "beforeValue", "value"}
RECURSIVE HtmlRun(_, _, _, _)
HtmlRun(st, s, lo, hi) ==
  IF lo > hi THEN st
  ELSE IF lo = hi THEN HtmlStep(st, s[lo])
  ELSE LET mid == (lo + hi) \div 2
           left == HtmlRun(st, s, lo, mid)
       IN  IF left.mode \in HtmlModes THEN HtmlRun(left, s, mid + 1, hi) ELSE left

\* the elements the markup parses to (a tag open at the end of input is dropped)
ParseHTML(s) == HtmlRun(HtmlStart, s, 1, Len(s)).out

HasAttr(el, name) == \E i \in 1..Len(el.attrs) : el.attrs[i].name = name
Attr(el, name) ==
  IF HasAttr(el, name)
  THEN JStr(el.attrs[CHOOSE i \in 1..Len(el.attrs) : el.attrs[i].name = name].value)
  ELSE JNull

(***************************************************************************)
(* The data-json texts the hosting document supplies, as JSON tokens       *)
(***************************************************************************)
Member(k, v) == <<TStr(Key(k)), P(":"), v>>
LogoText(name, logo, more) ==
  <<P("{")>> \o Member("name", TStr(name)) \o <<P(",")>>
            \o Member("logo", TStr(<<logo>>)) \o more \o <<P("}")>>

\* [{"name":"A","logo":"x.png"}]
JsonOne == <<P("[")>> \o LogoText(<<"A">>, "x.png", <<>>) \o <<P("]")>>
\* [{"name":"A","logo":"x.png","scale":1.5},{"name":"B","logo":"y.png","needsGlow":true}]
JsonTwo ==
  <<P("[")>>
    \o LogoText(<<"A">>, "x.png", <<P(",")>> \o Member("scale", TNum(Num(15, 1))))
    \o <<P(",")>>
    \o LogoText(<<"B">>, "y.png", <<P(",")>> \o Member("needsGlow", TLit("true")))
    \o <<P("]")>>
\* {not valid
JsonMalformed == <<P("{"), TBad("not"), TBad("valid")>>
\* {"a":1}
JsonObject == <<P("{")>> \o Member("a", TNum(Num(1, 0))) \o <<P("}")>>
\* 5
JsonNumber == <<TNum(Num(5, 0))>>
\* "abc"
JsonString == <<TStr(<<"a", "b", "c">>)>>
\* null
JsonNullText == <<TLit("null")>>
\* [1]
JsonNonRecords == <<P("["), TNum(Num(1, 0)), P("]")>>
\* [{"name":"A\"B","logo":"x.png"}]
JsonQuoteName == <<P("[")>> \o LogoText(<<"A", DQ, "B">>, "x.png", <<>>) \o <<P("]")>>
\* [{"name":"A\">B","logo":"x.png","scale":1.5}]
JsonBreakout ==
  <<P("[")>>
    \o LogoText(<<"A", DQ, ">", "B">>, "x.png",
                <<P(",")>> \o Member("scale", TNum(Num(15, 1))))
    \o <<P("]")>>

DataJsonTexts ==
  {JsonOne, JsonTwo, JsonMalformed, <<>>, JsonObject, JsonNumber, JsonString,
   JsonNullText, JsonNonRecords, JsonQuoteName, JsonBreakout}

(***************************************************************************)
(* The state: the host element's attributes and connection, the private    *)
(* fields of the class, the children of the shadow root, and a record of   *)
(* what the last callback did.                                             *)
(***************************************************************************)
VARIABLES attrs, connected, _accent, _borderColor, _speed, _direction, _logos,
          shadow, last

vars == <<attrs, connected, _accent, _borderColor, _speed, _direction, _logos,
          shadow, last>>
fields == <<_accent, _borderColor, _speed, _direction, _logos>>

observedAttributes == {"accent", "variant", "speed", "direction", "data-json"}

DefaultAccent == JStr(<<"hsl(var(--muted) / ", "0.3", ")">>)
DefaultBorderColor == JStr(<<"hsl(var(--border) / ", "0.3", ")">>)
DefaultSpeed == Num(90, 0)
Right == <<"r", "i", "g", "h", "t">>

(***************************************************************************)
(* getStyles, render, updateStyles                                         *)
(***************************************************************************)
\* String.prototype.replace(from, to) with a string pattern: the first
\* occurrence only
Replace(s, from, to) ==
  IF \E i \in 1..Len(s) : s[i] = from
  THEN LET j == CHOOSE i \in 1..Len(s) :
                  s[i] = from /\ \A h \in 1..(i - 1) : s[h] # from
       IN  [i \in 1..Len(s) |-> IF i = j THEN to ELSE s[i]]
  ELSE s

\* The style sheet text, as the declarations the component's state decides.
\* Calling .replace on an _accent that is no string is a TypeError.
getStyles(accent, borderColor, speed) ==
  IF accent.t # "string" THEN [threw |-> TRUE, css |-> <<>>]
  ELSE [threw |-> FALSE,
        css |-> [background |-> <<"linear-gradient(180deg, ">> \o accent.s
                                  \o <<" 0%, ">> \o Replace(accent.s, "0.3", "0.1")
                                  \o <<" 100%)">>,
                 border |-> <<"1px solid ">> \o JSToString(borderColor),
                 rowAnimation |-> "scroll-left",
                 hostDirectionRightAnimation |-> "scroll-right",
                 tickerSpeed |-> NumberToString(speed) \o <<"s">>]]

StyleNode(css) == [node |-> "style", css |-> css]
SectionNode(speed, row) ==
  [node |-> "section",
   rowStyle |-> <<"animation-duration: ">> \o NumberToString(speed) \o <<"s;">>,
   row |-> row]

\* createTickerRowContent(logos), assigned to innerHTML and parsed
InnerHTML(content) == [threw |-> content.threw, row |-> ParseHTML(content.html)]
RowContentOf(logos) == InnerHTML(createTickerRowContent(logos))

\* The values _logos takes here, and the row of each, computed once:
\* RowContent(logos) is RowContentOf(logos).
LogoValues ==
  {getDefaultLogos, JArr(<<>>)} \cup {JSONParse(JStr(t)).v : t \in DataJsonTexts}
RowContents == {<<logos, RowContentOf(logos)>> : logos \in LogoValues}
RowContent(logos) == (CHOOSE p \in RowContents : p[1] = logos)[2]

\* render(): the shadow root is emptied first; the template literal is then
\* evaluated left to right, and an exception in it leaves the root empty.
Template(styles, content, speed) ==
  IF styles.threw \/ content.threw THEN [threw |-> TRUE, shadow |-> <<>>]
  ELSE [threw |-> FALSE,
        shadow |-> <<StyleNode(styles.css), SectionNode(speed, content.row)>>]

render(accent, borderColor, speed, logos) ==
  Template(getStyles(accent, borderColor, speed), RowContent(logos), speed)

\* styleTag.textContent = styles, in the first <style> of the root; without
\* one, a new <style> is prepended
SetStyles(sh, styles) ==
  IF styles.threw THEN [threw |-> TRUE, shadow |-> sh]
  ELSE IF \E i \in 1..Len(sh) : sh[i].node = "style"
  THEN [threw |-> FALSE,
        shadow |-> [i \in 1..Len(sh) |->
                      IF sh[i].node = "style" /\ \A h \in 1..(i - 1) : sh[h].node # "style"
                      THEN StyleNode(styles.css) ELSE sh[i]]]
  ELSE [threw |-> FALSE, shadow |-> <<StyleNode(styles.css)>> \o sh]

updateStyles(sh, accent, borderColor, speed) ==
  SetStyles(sh, getStyles(accent, borderColor, speed))

(***************************************************************************)
(* constructor                                                             *)
(***************************************************************************)
Called(callback, same, threw, diagnostics, renders) ==
  [callback |-> callback, same |-> same, threw |-> threw,
   diagnostics |-> diagnostics, renders |-> renders]

Init ==
  /\ attrs = [a \in observedAttributes |-> JNull]
  /\ connected = FALSE
  /\ _accent = DefaultAccent
  /\ _borderColor = DefaultBorderColor
  /\ _speed = DefaultSpeed
  /\ _direction = "left"
  /\ _logos = JArr(<<>>)
  /\ shadow = updateStyles(<<>>, DefaultAccent, DefaultBorderColor, DefaultSpeed).shadow
  /\ last = Called("constructor", FALSE, FALSE, 0, 0)

(***************************************************************************)
(* attributeChangedCallback                                                *)
(***************************************************************************)
\* A variant without the early return: every notification is processed.
NeverUnchanged(oldValue, newValue) == FALSE

\* if (oldValue === newValue) return;
IsUnchanged(oldValue, newValue) == oldValue = newValue

\* A variant that falls back to the duration held:  parseFloat(newValue) || this._speed
speedKeepsCurrent(newValue) == OrNumber(parseFloat(newValue), _speed)

\* parseFloat(newValue) || 90
speedOnChange(newValue) == OrNumber(parseFloat(newValue), Num(90, 0))

\* value === 'right' ? 'right' : 'left'
directionOf(value) == IF value = JStr(Right) THEN "right" ELSE "left"

\* try { JSON.parse } catch { console.error; getDefaultLogos() }
Caught(j) ==
  IF j.ok THEN [logos |-> j.v, diagnostics |-> 0]
  ELSE [logos |-> getDefaultLogos, diagnostics |-> 1]
logosOf(text) == Caught(JSONParse(text))

\* The fields as the switch leaves them, then render() and updateStyles().
\* r is what render() did, u what updateStyles() did; an exception in
\* render() leaves the callback before updateStyles().
Rebuild(accent, speed, direction, parsed) ==
  \E r \in {render(accent, _borderColor, speed, parsed.logos)} :
  \E u \in {updateStyles(r.shadow, accent, _borderColor, speed)} :
      /\ _accent' = accent
      /\ _speed' = speed
      /\ _direction' = direction
      /\ _logos' = parsed.logos
      /\ shadow' = IF r.threw THEN r.shadow ELSE u.shadow
      /\ last' = Called("attributeChangedCallback", FALSE,
                        r.threw \/ u.threw, parsed.diagnostics, 1)
      /\ UNCHANGED _borderColor

\* A variant whose switch gives every field but the changed key's its default.
changeResetsOthers(name, oldValue, newValue) ==
  IF IsUnchanged(oldValue, newValue)
  THEN /\ last' = Called("attributeChangedCallback", TRUE, FALSE, 0, 0)
       /\ UNCHANGED <<fields, shadow>>
  ELSE Rebuild(IF name = "accent" THEN newValue ELSE DefaultAccent,
               IF name = "speed" THEN speedOnChange(newValue) ELSE DefaultSpeed,
               IF name = "direction" THEN directionOf(newValue) ELSE "left",
               IF name = "data-json" THEN logosOf(newValue)
               ELSE [logos |-> _logos, diagnostics |-> 0])

attributeChangedCallback(name, oldValue, newValue) ==
  IF IsUnchanged(oldValue, newValue)
  THEN /\ last' = Called("attributeChangedCallback", TRUE, FALSE, 0, 0)
       /\ UNCHANGED <<fields, shadow>>
  ELSE Rebuild(IF name = "accent" THEN newValue ELSE _accent,
               IF name = "speed" THEN speedOnChange(newValue) ELSE _speed,
               IF name = "direction" THEN directionOf(newValue) ELSE _direction,
               IF name = "data-json" THEN logosOf(newValue)
               ELSE [logos |-> _logos, diagnostics |-> 0])

(***************************************************************************)
(* connectedCallback: parseAttributes(), then render()                     *)
(***************************************************************************)
getAttribute(name) == attrs[name]

\* parseFloat(this.getAttribute('speed') || '90') || this._speed
speedOnMount(value, current) ==
  OrNumber(parseFloat(Or(value, JStr(<<"9", "0">>))), current)

\* if (dataJson) { try ... } else { getDefaultLogos() }
logosOnMount(dataJson) ==
  IF Truthy(dataJson) THEN logosOf(dataJson)
  ELSE [logos |-> getDefaultLogos, diagnostics |-> 0]

parseAttributes ==
  [accent |-> Or(getAttribute("accent"), _accent),
   speed |-> speedOnMount(getAttribute("speed"), _speed),
   direction |-> directionOf(getAttribute("direction")),
   parsed |-> logosOnMount(getAttribute("data-json"))]

\* p is what parseAttributes() assigns, r what render() did
connectedCallback ==
  \E p \in {parseAttributes} :
  \E r \in {render(p.accent, _borderColor, p.speed, p.parsed.logos)} :
      /\ _accent' = p.accent
      /\ _speed' = p.speed
      /\ _direction' = p.direction
      /\ _logos' = p.parsed.logos
      /\ shadow' = r.shadow
      /\ last' = Called("connectedCallback", FALSE, r.threw, p.parsed.diagnostics, 1)
      /\ UNCHANGED _borderColor

disconnectedCallback ==
  /\ last' = Called("disconnectedCallback", FALSE, FALSE, 0, 0)
  /\ UNCHANGED <<fields, shadow>>

(***************************************************************************)
(* The hosting document.  The element is an HTML element of an HTML        *)
(* document; setAttribute and removeAttribute change the attribute and     *)
(* then deliver attributeChangedCallback (also when the value set is the   *)
(* one the attribute has); inserting the element delivers                  *)
(* connectedCallback.  An element the parser creates, or one that is       *)
(* upgraded, receives the same callbacks, one per attribute, before        *)
(* connectedCallback.                                                      *)
(***************************************************************************)
AttributeValues ==
  [a \in observedAttributes |->
     CASE a = "accent" -> {JStr(<<"#FF5733">>), JStr(<<>>)}
       [] a = "variant" -> {JStr(<<"compact">>)}
       [] a = "speed" -> {JStr(<<"3", "0">>), JStr(<<"0">>), JStr(<<"abc">>),
                          JStr(<<"-", "5">>), JStr(<<>>)}
       [] a = "direction" -> {JStr(Right), JStr(<<"l", "e", "f", "t">>),
                              JStr(<<"R", "I", "G", "H", "T">>)}
       [] OTHER -> {JStr(t) : t \in DataJsonTexts}]

SetAttribute(name, value) ==
  /\ attrs' = [attrs EXCEPT ![name] = value]
  /\ attributeChangedCallback(name, attrs[name], value)
  /\ UNCHANGED connected

RemoveAttribute(name) ==
  /\ attrs[name] # JNull
  /\ attrs' = [attrs EXCEPT ![name] = JNull]
  /\ attributeChangedCallback(name, attrs[name], JNull)
  /\ UNCHANGED connected

Mount ==
  /\ ~connected
  /\ connected' = TRUE
  /\ connectedCallback
  /\ UNCHANGED attrs

Unmount ==
  /\ connected
  /\ connected' = FALSE
  /\ disconnectedCallback
  /\ UNCHANGED attrs

Next ==
  \/ \E name \in observedAttributes : \E value \in AttributeValues[name] :
       SetAttribute(name, value)
  \/ \E name \in observedAttributes : RemoveAttribute(name)
  \/ Mount
  \/ Unmount

Spec == Init /\ [][Next]_vars

(***************************************************************************)
(* What a document observes of the element                                 *)
(***************************************************************************)
\* the <section> render() appends, and the images of its row
HasRow == \E i \in 1..Len(shadow) : shadow[i].node = "section"
Section == shadow[CHOOSE i \in 1..Len(shadow) : shadow[i].node = "section"]
Images == SelectSeq(Section.row, LAMBDA el : el.tag = "img")
StyleSheet == shadow[CHOOSE i \in 1..Len(shadow) : shadow[i].node = "style"].css

\* Selector matching of  :host([direction="right"]) .  The host is an HTML
\* element of an HTML document, and direction is one of the attributes whose
\* values attribute selectors compare ASCII case-insensitively there.
AsciiLower(c) ==
  CASE c = "R" -> "r" [] c = "I" -> "i" [] c = "G" -> "g"
    [] c = "H" -> "h" [] c = "T" -> "t" [] OTHER -> c
HostMatchesDirectionRight ==
  /\ attrs["direction"].t = "string"
  /\ Len(attrs["direction"].s) = Len(Right)
  /\ \A i \in 1..Len(Right) : AsciiLower(attrs["direction"].s[i]) = Right[i]

\* The animation the cascade gives .logo-ticker-row: the rule under :host(...)
\* is the more specific one, and the later one.
AnimationBinding ==
  IF HostMatchesDirectionRight THEN StyleSheet.hostDirectionRightAnimation
  ELSE StyleSheet.rowAnimation

\* the steps of the hosting document, told by what they do to the host
IsMount == ~connected /\ connected'
IsChangeOf(name) == attrs'[name] # attrs[name]
IsRemovalOf(name) == attrs[name] # JNull /\ attrs'[name] = JNull
IsSameValueNotification ==
  attrs' = attrs /\ connected' = connected /\ last'.callback = "attributeChangedCallback"

(***************************************************************************)
(* Properties                                                              *)
(***************************************************************************)
IsLogoRecord(item) ==
  /\ item.t = "object"
  /\ Get(item, Key("name")).t = "string"
  /\ Get(item, Key("logo")).t = "string"
IsLogoList(v) ==
  v.t = "array" /\ \A i \in 1..Len(v.items) : IsLogoRecord(v.items[i])

\* the entry of the held list that image i of the row is rendered from
EntryOf(i) == _logos.items[((i - 1) % Len(_logos.items)) + 1]

\* C1: whenever the logos held are a valid list L of length N and a row is
\* rendered, the row has exactly 3N images, and image i carries the name (as
\* alt) and the source (as src) of entry ((i - 1) mod N) + 1 of L: the row
\* is L ++ L ++ L in order.
C1_RowIsListThrice ==
  IsLogoList(_logos) /\ HasRow =>
    /\ Len(Images) = 3 * Len(_logos.items)
    /\ \A i \in 1..Len(Images) :
         /\ Attr(Images[i], "alt") = Get(EntryOf(i), Key("name"))
         /\ Attr(Images[i], "src") = Get(EntryOf(i), Key("logo"))

\* the one-entry list whose name is  A"B  renders three images with alt  A
C1_QuoteInNameCutsAlt ==
  /\ attrs["data-json"] = JStr(JsonQuoteName)
  /\ IsLogoList(_logos) /\ HasRow /\ Len(Images) = 3
  /\ Get(_logos.items[1], Key("name")) = JStr(<<"A", DQ, "B">>)
  /\ Attr(Images[1], "alt") = JStr(<<"A">>)

\* C2: no handler ends in an uncaught exception, and after every handler
\* that rebuilds, the shadow root holds the rendered subtree.
C2_NoHandlerThrows ==
  /\ ~last.threw
  /\ last.renders > 0 => HasRow

\* removing accent ends attributeChangedCallback in a TypeError, the shadow
\* root emptied
C2_AccentRemovalThrows ==
  /\ last.callback = "attributeChangedCallback"
  /\ attrs["accent"] = JNull /\ _accent = JNull
  /\ last.threw /\ shadow = <<>>

MalformedTexts == {JStr(JsonMalformed), JStr(<<>>)}
\* C3: a mount, or a processed change of data-json, whose data-json is not
\* JSON text emits a diagnostic, makes the logos the 23 built-in entries,
\* and renders 69 images.
C3_MalformedJsonFallsBack ==
  [][(IsMount \/ IsChangeOf("data-json")) /\ attrs'["data-json"] \in MalformedTexts
       => /\ last'.diagnostics = 1
          /\ _logos' = getDefaultLogos /\ Len(getDefaultLogos.items) = 23
          /\ HasRow' /\ Len(Images') = 69]_vars

\* a mount with data-json=""  takes the built-in entries without a diagnostic
C3_EmptyTextOnMountIsSilent ==
  /\ last.callback = "connectedCallback"
  /\ attrs["data-json"] = JStr(<<>>)
  /\ last.diagnostics = 0 /\ _logos = getDefaultLogos

WrongShapeTexts ==
  {JStr(JsonObject), JStr(JsonNumber), JStr(JsonString), JStr(JsonNullText),
   JStr(JsonNonRecords)}
\* C4: a mount, or a processed change of data-json, whose data-json is JSON
\* text of the wrong shape (an object, a number, a string, null, an array of
\* non-records) emits a diagnostic and makes the logos the built-in entries.
C4_WrongShapeFallsBack ==
  [][(IsMount \/ IsChangeOf("data-json")) /\ attrs'["data-json"] \in WrongShapeTexts
       => last'.diagnostics = 1 /\ _logos' = getDefaultLogos]_vars

\* data-json='{"a":1}'  is stored as the logos, without a diagnostic
C4_ObjectIsStored ==
  /\ attrs["data-json"] = JStr(JsonObject)
  /\ _logos = JObj(<<Prop(Key("a"), JNum(Num(1, 0)))>>)
  /\ last.diagnostics = 0

FalsySpeedValues == {JNull, JStr(<<"0">>), JStr(<<"abc">>), JStr(<<>>)}
\* C5: a mount, or a processed change of speed, whose speed attribute is
\* absent or parses to no number or to zero leaves the loop duration 90,
\* whatever duration was held before.
C5_FalsySpeedResolvesTo90 ==
  [][(IsMount \/ IsChangeOf("speed")) /\ attrs'["speed"] \in FalsySpeedValues
       => _speed' = Num(90, 0)]_vars

\* a mount with speed="abc" has acted, and the duration is 90
C5_MountedWithUnparsableSpeed ==
  /\ last.callback = "connectedCallback"
  /\ attrs["speed"] = JStr(<<"abc">>)
  /\ _speed = Num(90, 0)
  /\ HasRow /\ Section.rowStyle = <<"animation-duration: ", "9", "0", "s;">>

\* C6: in every reachable state the loop duration is a positive number.
C6_SpeedIsPositive == ~_speed.nan /\ ~_speed.neg /\ _speed.m > 0

\* speed="-5"  is held, and rendered, as a duration of -5
C6_NegativeSpeedIsHeld ==
  /\ attrs["speed"] = JStr(<<"-", "5">>)
  /\ _speed = Neg(5, 0)
  /\ HasRow /\ Section.rowStyle = <<"animation-duration: ", "-", "5", "s;">>

\* C7: the stored direction is right, and a rendered row is bound to
\* scroll-right, if and only if the host's direction attribute is exactly
\* "right"; otherwise the stored direction is left and the row is bound to
\* scroll-left.
C7_DirectionIffExactlyRight ==
  IF attrs["direction"] = JStr(Right)
  THEN _direction = "right" /\ (HasRow => AnimationBinding = "scroll-right")
  ELSE _direction = "left" /\ (HasRow => AnimationBinding = "scroll-left")

\* direction="RIGHT": the stored direction is left, the row scrolls right
C7_UpperCaseRightDisagrees ==
  /\ attrs["direction"] = JStr(<<"R", "I", "G", "H", "T">>)
  /\ HasRow
  /\ _direction = "left" /\ AnimationBinding = "scroll-right"

\* C8: a notification whose old value equals its new value changes no
\* field and nothing rendered, emits no diagnostic and rebuilds nothing.
C8_SameValueIsNoOp ==
  [][IsSameValueNotification
       => /\ UNCHANGED <<fields, shadow>>
          /\ last'.diagnostics = 0 /\ last'.renders = 0]_vars

\* a notification with equal values has been delivered to a mounted element
C8_SameValueDelivered ==
  /\ last.callback = "attributeChangedCallback" /\ last.same
  /\ connected /\ HasRow
  /\ last.renders = 0

\* C9: after an attribute is removed from a mounted element, its field holds
\* the default: the default accent, 90, left, the built-in entries.
C9_RemovedAttributeGivesDefault ==
  [][connected /\ connected'
       => /\ IsRemovalOf("accent") => _accent' = DefaultAccent
          /\ IsRemovalOf("speed") => _speed' = DefaultSpeed
          /\ IsRemovalOf("direction") => _direction' = "left"
          /\ IsRemovalOf("data-json") => _logos' = getDefaultLogos]_vars

\* data-json removed from a mounted element: the logos are null
C9_RemovedDataJsonIsNull ==
  /\ connected /\ last.callback = "attributeChangedCallback"
  /\ attrs["data-json"] = JNull
  /\ _logos = JNull

StyleOf(img) == IF HasAttr(img, "style") THEN Attr(img, "style").s ELSE <<>>
Contains(s, frag) ==
  \E k \in 0..(Len(s) - Len(frag)) : \A j \in 1..Len(frag) : s[k + j] = frag[j]
Has(s, atom) == \E j \in 1..Len(s) : s[j] = atom
DropShadowTerms(s) ==
  Cardinality({j \in 1..Len(s) : s[j] \in {DropShadow6, DropShadow12}})
\* C10: of every rendered entry, the inline style has the transform
\* scale(1.5) if the entry's scale is 1.5, and a filter of exactly two
\* drop-shadow terms if its needsGlow is true; it has no transform if the
\* entry has no scale, and no filter if the entry has no needsGlow.
C10_StyleFragments ==
  _logos.t = "array" /\ HasRow /\ Len(Images) = 3 * Len(_logos.items)
  /\ (\A i \in 1..Len(_logos.items) : _logos.items[i].t = "object") =>
    \A i \in 1..Len(Images) :
      LET style == StyleOf(Images[i])
          scale == Get(EntryOf(i), Key("scale"))
          glow == Get(EntryOf(i), Key("needsGlow"))
      IN  /\ scale = JNum(Num(15, 1))
               => Contains(style, <<"transform: scale(", "1", ".", "5", ");">>)
          /\ glow = JBool(TRUE)
               => Has(style, "filter: ") /\ DropShadowTerms(style) = 2
          /\ scale = JUndefined => ~Has(style, "transform: scale(")
          /\ glow = JUndefined => ~Has(style, "filter: ")

\* the entry named  A">B  with scale 1.5 renders an image without a style
C10_BreakoutDropsStyle ==
  /\ attrs["data-json"] = JStr(JsonBreakout)
  /\ _logos.t = "array" /\ HasRow /\ Len(Images) = 3
  /\ Get(_logos.items[1], Key("scale")) = JNum(Num(15, 1))
  /\ ~HasAttr(Images[1], "style")

\* the children of the shadow root of one kind
NodeCount(sh, kind) == Cardinality({i \in 1..Len(sh) : sh[i].node = kind})
IsProcessedChange == \E name \in observedAttributes : IsChangeOf(name)

\* C11: every processed attribute change, variant included, rebuilds once
\* and leaves in the shadow root exactly one style block and one row, the
\* row of the configuration held after it: three images per logo held, and
\* the duration held.
C11_ChangeRebuildsWhole ==
  [][IsProcessedChange
       => /\ last'.renders = 1
          /\ NodeCount(shadow', "style") = 1 /\ NodeCount(shadow', "section") = 1
          /\ Len(shadow') = 2
          /\ _logos'.t = "array" => Len(Images') = 3 * Len(_logos'.items)
          /\ Section'.rowStyle = <<"animation-duration: ">> \o NumberToString(_speed') \o <<"s;">>
          /\ StyleSheet'.tickerSpeed = NumberToString(_speed') \o <<"s">>]_vars

\* a processed change of data-json to  5  has rebuilt, and the root is empty
C11_NumberLeavesRootEmpty ==
  /\ last.callback = "attributeChangedCallback" /\ ~last.same /\ last.renders = 1
  /\ attrs["data-json"] = JStr(JsonNumber) /\ _logos = JNum(Num(5, 0))
  /\ NodeCount(shadow, "style") = 0 /\ NodeCount(shadow, "section") = 0

\* the fields other than the one the key maps to are left as they were
OthersUnchanged(name) ==
  /\ name # "accent" => _accent' = _accent
  /\ name # "speed" => _speed' = _speed
  /\ name # "direction" => _direction' = _direction
  /\ name # "data-json" => _logos' = _logos

\* C12: a change notification for accent, speed, direction or data-json
\* leaves every field but the one its key maps to unchanged; one for variant
\* leaves every field unchanged; and no step changes _borderColor.
C12_OnlyChangedKeyReprocessed ==
  [][/\ _borderColor' = _borderColor
     /\ connected' = connected
          => \A name \in observedAttributes : IsChangeOf(name) => OthersUnchanged(name)]_vars

\* a processed change has been delivered to an element none of whose
\* fields holds its initial value
C12_ChangeAmongNonDefaults ==
  /\ last.callback = "attributeChangedCallback" /\ ~last.same /\ ~last.threw
  /\ attrs["variant"] = JStr(<<"compact">>)
  /\ _accent = JStr(<<"#FF5733">>) /\ _speed = Num(30, 0) /\ _direction = "right"
  /\ _logos = JSONParse(JStr(JsonOne)).v
  /\ _borderColor = DefaultBorderColor

(***************************************************************************)
(* The element before its first mount: constructed, and given or taken     *)
(* attributes other than data-json by the document, never inserted.        *)
(***************************************************************************)
KeysBeforeMount == observedAttributes \ {"data-json"}
NextBeforeMount ==
  \/ \E name \in KeysBeforeMount : \E value \in AttributeValues[name] :
       SetAttribute(name, value)
  \/ \E name \in KeysBeforeMount : RemoveAttribute(name)

SpecBeforeMount == Init /\ [][NextBeforeMount]_vars

\* C13: before the first mount, with data-json never changed: right after
\* construction the accent is the default; the duration is 90 and the
\* direction left while no speed or direction attribute is set; the logos
\* are the 23 built-in entries, and a rebuild renders 69 images.
C13_DefaultsAtConstruction ==
  /\ last.callback = "constructor" => _accent = DefaultAccent
  /\ attrs["speed"] = JNull => _speed = Num(90, 0)
  /\ attrs["direction"] = JNull => _direction = "left"
  /\ _logos = getDefaultLogos /\ Len(getDefaultLogos.items) = 23
  /\ last.renders = 1 /\ HasRow => Len(Images) = 69

\* a rebuild before the first mount has rendered a row without images, the
\* logos being the empty list
C13_RebuildBeforeMountIsEmpty ==
  /\ ~connected /\ attrs["data-json"] = JNull
  /\ last.callback = "attributeChangedCallback" /\ last.renders = 1 /\ ~last.threw
  /\ _logos = JArr(<<>>)
  /\ HasRow /\ Len(Images) = 0

(***************************************************************************)
(* The initial load: the element is constructed, the document gives it     *)
(* each attribute at most once (one attributeChangedCallback each), and    *)
(* inserts it once.                                                        *)
(***************************************************************************)
NextLoad ==
  \/ \E name \in observedAttributes : \E value \in AttributeValues[name] :
       ~connected /\ attrs[name] = JNull /\ SetAttribute(name, value)
  \/ Mount

SpecLoad == Init /\ [][NextLoad]_vars

\* the fields, as one configuration
Configuration ==
  [accent |-> _accent, speed |-> _speed, direction |-> _direction, logos |-> _logos]
\* the configuration the field initialisers give
DefaultConfiguration ==
  [accent |-> DefaultAccent, speed |-> DefaultSpeed, direction |-> "left",
   logos |-> JArr(<<>>)]
\* one change notification per attribute of a (old value null), applied to
\* the default configuration by the rules of the switch
ChangedConfiguration(a) ==
  [accent |-> IF IsUnchanged(JNull, a["accent"]) THEN DefaultConfiguration.accent
              ELSE a["accent"],
   speed |-> IF IsUnchanged(JNull, a["speed"]) THEN DefaultConfiguration.speed
             ELSE speedOnChange(a["speed"]),
   direction |-> IF IsUnchanged(JNull, a["direction"]) THEN DefaultConfiguration.direction
                 ELSE directionOf(a["direction"]),
   logos |-> IF IsUnchanged(JNull, a["data-json"]) THEN DefaultConfiguration.logos
             ELSE logosOf(a["data-json"]).logos]

\* C14: mounting a freshly constructed element that has been given its
\* attributes yields the configuration that one change notification per
\* attribute gives the default configuration; and with data-json absent the
\* mount takes the built-in entries without a diagnostic.
C14_LoadEqualsChanges ==
  [][IsMount
       => /\ Configuration' = ChangedConfiguration(attrs)
          /\ attrs["data-json"] = JNull
               => last'.diagnostics = 0 /\ _logos' = getDefaultLogos]_vars

\* mounted without data-json: the logos are the built-in entries, where the
\* change notifications alone leave the empty list
C14_MountWithoutDataJsonDiffers ==
  /\ connected /\ last.callback = "connectedCallback"
  /\ attrs["data-json"] = JNull /\ attrs["speed"] = JStr(<<"3", "0">>)
  /\ _logos = getDefaultLogos /\ last.diagnostics = 0
  /\ ChangedConfiguration(attrs).logos = JArr(<<>>)
  /\ ChangedConfiguration(attrs).speed = _speed

====
